---- MODULE Spec2Model ----
(***************************************************************************)
(* Delegation chains of packages/identity/src/identity/delegation.ts:      *)
(* Delegation, SignedDelegation, DelegationChain (create, fromDelegations, *)
(* fromJSON, toJSON), DelegationIdentity.transformRequest and              *)
(* isDelegationValid.                                                      *)
(*                                                                         *)
(* Byte strings (ArrayBuffer contents) are sequences of bytes 0..255.  An  *)
(* ArrayBuffer that the code puts into a Set (a delegation's pubkey) is a   *)
(* record [ref, bytes]: ref is the object's identity, which is what        *)
(* Set.has compares.  Hex strings are sequences of hex digits 0..15, with  *)
(* Minus standing for the character "-".                                   *)
(***************************************************************************)
EXTENDS Integers, Sequences, FiniteSets, TLC

VARIABLES
  chains,   \* the DelegationChain objects constructed so far (index = object identity)
  calls,    \* the DelegationChain.create calls, each at its position in the async code
  ret,      \* outcome of the last synchronous call (fromDelegations, fromJSON, toJSON)
  json,     \* the JSON value last produced by toJSON or handed in by a caller
  valid,    \* the last isDelegationValid evaluation: its arguments and its result
  reqs      \* the DelegationIdentity.transformRequest calls

vars == <<chains, calls, ret, json, valid, reqs>>

----------------------------------------------------------------------------
(* Program constants *)

MAXIMUM_NUMBER_OF_TARGETS == 1000
MAXIMUM_DELEGATION_CHAIN_LENGTH == 20
\* _parseBlob: a hex string shorter than this is rejected
MinBlobHexLength == 64
\* nanoseconds per millisecond: BigInt(1000000)
NanosPerMilli == 1000000
\* expiration.toString(16), BigInt(`0x${expiration}`), toHexString
HexBase == 16

\* new TextEncoder().encode('\x1Aic-request-auth-delegation')
domainSeparator ==
  <<26, 105, 99, 45, 114, 101, 113, 117, 101, 115, 116, 45, 97, 117, 116, 104, 45,
    100, 101, 108, 101, 103, 97, 116, 105, 111, 110>>
\* new TextEncoder().encode('\x0Aic-request')
requestDomainSeparator == <<10, 105, 99, 45, 114, 101, 113, 117, 101, 115, 116>>

----------------------------------------------------------------------------
(* Bounds of the model *)

\* key pairs 1..NumKeys
NumKeys == 3
\* length in bytes of a DER-encoded public key (key ShortKey's encoding is one byte shorter)
KeyLen == 32
\* length in bytes of a signature
SigLen == 64
\* length in bytes of a request id
HashLen == 32
\* DelegationChain objects kept in the model
MaxChains == 3
\* concurrent create calls
NumCalls == 2
\* DelegationChain objects kept in the JSON specification
MaxJsonChains == 2
\* JSON documents with up to MAXIMUM_DELEGATION_CHAIN_LENGTH + ExtraLen delegations
ExtraLen == 1
\* delegations of the chains isDelegationValid is given
MaxValidLen == 2
\* latest value of Date.now(), in milliseconds
MaxNow == 2
\* request bodies 1..NumBodies
NumBodies == 2

----------------------------------------------------------------------------
(* Generic helpers *)

Rep(n, b) == [i \in 1..n |-> b]

RECURSIVE Flatten(_)
Flatten(ss) == IF ss = <<>> THEN <<>> ELSE Head(ss) \o Flatten(Tail(ss))

Range(s) == {s[i] : i \in 1..Len(s)}

----------------------------------------------------------------------------
(* Collaborators the module imports: the signing primitive, the request    *)
(* hasher, the hex codec of ../buffer and Principal.                       *)

Undefined == [defined |-> FALSE, list |-> <<>>]
Targets(list) == [defined |-> TRUE, list |-> list]

\* An ArrayBuffer object: its identity and its content
Buf(r, b) == [ref |-> r, bytes |-> b]

Keys == 1..NumKeys
\* the key pair whose DER encoding is shorter than _parseBlob accepts
ShortKey == NumKeys
\* DER encoding of key pair k's public key
KeyBytes(k) == Rep(IF k = ShortKey THEN KeyLen - 1 ELSE KeyLen, k)
\* the buffer a PublicKey object that caches its encoding returns from toDer();
\* buffers that exist before the run have negative identities, allocated ones positive
CachedDer(k) == Buf(-k, KeyBytes(k))

\* toHexString: two hex digits per byte
ToHexString(bytes) ==
  Flatten([i \in 1..Len(bytes) |-> <<bytes[i] \div HexBase, bytes[i] % HexBase>>])

\* fromHexString: one byte per pair of hex digits
FromHexString(hex) ==
  [i \in 1..(Len(hex) \div 2) |-> HexBase * hex[2 * i - 1] + hex[2 * i]]

\* the character "-" in a hex string
Minus == HexBase

RECURSIVE NatToString16(_)
NatToString16(n) ==
  IF n < HexBase THEN <<n>> ELSE Append(NatToString16(n \div HexBase), n % HexBase)

\* bigint.toString(16)
BigIntToString16(n) == IF n < 0 THEN <<Minus>> \o NatToString16(-n) ELSE NatToString16(n)

\* BigInt(`0x${s}`) throws a SyntaxError unless s is a non-empty run of hex digits
BigIntSyntaxError(s) == s = <<>> \/ \E i \in 1..Len(s) : s[i] \notin 0..(HexBase - 1)

RECURSIVE HexValue(_)
HexValue(s) ==
  IF s = <<>> THEN 0 ELSE HexBase * HexValue(SubSeq(s, 1, Len(s) - 1)) + s[Len(s)]

\* Principal.toHex / Principal.fromHex / Principal.toText / Principal.fromText
PrincipalToHex(p) == ToHexString(p)
PrincipalFromHex(h) == FromHexString(h)
\* the text form is another encoding of the same bytes
PrincipalToText(p) == <<Len(p)>> \o p
PrincipalFromText(t) == Tail(t)

PrincipalA == <<1>>
PrincipalB == <<2>>

\* The targets lists callers pass; the last is one entry over the limit
TargetChoices ==
  << Undefined, Targets(<<>>), Targets(<<PrincipalA>>), Targets(<<PrincipalA, PrincipalB>>),
     Targets(<<PrincipalB>>),
     Targets(Rep(MAXIMUM_NUMBER_OF_TARGETS, PrincipalA)),
     Targets(Rep(MAXIMUM_NUMBER_OF_TARGETS + 1, PrincipalA)) >>

TargetsIndex(t) == CHOOSE i \in 1..Len(TargetChoices) : TargetChoices[i] = t

\* a 32-bit two's-complement integer as four bytes
Int32Bytes(n) ==
  LET u == IF n < 0 THEN n + 2147483647 + 1 ELSE n
  IN  << (IF n < 0 THEN 128 ELSE 0) + (u \div 16777216), (u \div 65536) % 256,
         (u \div 256) % 256, u % 256 >>

\* requestIdOf(delegation): a fixed-size hash of the delegation's CBOR map
\* {pubkey, expiration, targets}; the stand-in is injective on the model's values
RequestIdOfDelegation(d) ==
  LET id == <<Len(d.pubkey.bytes), IF d.pubkey.bytes = <<>> THEN 0 ELSE d.pubkey.bytes[1],
              TargetsIndex(d.targets)>> \o Int32Bytes(d.expiration)
  IN  id \o Rep(HashLen - Len(id), 0)

\* requestIdOf(body) for the request bodies 1, 2, ...
RequestIdOfBody(b) == <<b>> \o Rep(HashLen - 1, 255)

\* identity.sign(blob) of key pair k: deterministic, and no other key or blob gives the same bytes
SignBytes(k, blob) ==
  LET raw == <<k>> \o blob
  IN  IF Len(raw) >= SigLen THEN raw ELSE raw \o Rep(SigLen - Len(raw), 0)

\* signature verification against a DER public key
Verifies(pubBytes, blob, sig) == \E k \in Keys : KeyBytes(k) = pubBytes /\ SignBytes(k, blob) = sig

----------------------------------------------------------------------------
(* Delegation and _createSingleDelegation *)

\* new Delegation(pubkey, expiration, targets): throws when targets exceed the maximum
DelegationThrows(targets) ==
  targets.defined /\ Len(targets.list) > MAXIMUM_NUMBER_OF_TARGETS

Delegation(pubkey, expiration, targets) ==
  [pubkey |-> pubkey, expiration |-> expiration, targets |-> targets]

NoDelegation == Delegation(Buf(0, <<>>), 0, Undefined)

\* the message a delegation's signature covers
Challenge(delegation) == domainSeparator \o RequestIdOfDelegation(delegation)

\* BigInt(+expiration) * BigInt(1000000)
DateToNanos(ms) == ms * NanosPerMilli

\* The PublicKey objects callers pass as `to`: toDer() returns the same buffer every
\* time ("cached"), a new buffer every time ("fresh"), or is not there ("missing")
PublicKey(k, mode) == [key |-> k, toDer |-> mode]

\* to.toDer(): `fresh` is the identity of the buffer a new allocation would get
ToDer(to, fresh) ==
  IF to.toDer = "cached" THEN CachedDer(to.key) ELSE Buf(fresh, KeyBytes(to.key))

\* The SignIdentity objects callers pass as `from`: getPublicKey() is key pair `key`'s,
\* sign() signs with key pair `signer` (a DelegationIdentity signs with its inner key),
\* and canSign is whether the object has a sign method at all
SignIdentity(k, signer, canSign) == [key |-> k, signer |-> signer, canSign |-> canSign]

SignedDelegation(delegation, signature) == [delegation |-> delegation, signature |-> signature]

----------------------------------------------------------------------------
(* DelegationChain *)

ConstructorThrowsAtMaximum(delegations) == Len(delegations) >= MAXIMUM_DELEGATION_CHAIN_LENGTH

\* the constructor's length check
ConstructorThrows(delegations) == Len(delegations) > MAXIMUM_DELEGATION_CHAIN_LENGTH

\* new DelegationChain(delegations, publicKey, previous); previous = 0 is undefined
DelegationChain(delegations, publicKey, previous) ==
  [delegations |-> delegations, publicKey |-> publicKey, previous |-> previous]

NoChain == DelegationChain(<<>>, <<>>, 0)

\* identities of the buffers the model's objects hold
UsedRefs ==
  {0}
  \cup UNION {{chains[i].delegations[j].delegation.pubkey.ref :
                 j \in 1..Len(chains[i].delegations)} : i \in 1..Len(chains)}
  \cup {calls[c].delegation.pubkey.ref : c \in DOMAIN calls}

\* identity of a newly allocated buffer: one that no object holds
NewRef(used) == CHOOSE n \in 1..(Cardinality(used) + 1) : n \notin used /\ \A m \in 1..(n - 1) : m \in used

\* identities of the next two buffers allocated
FreshRef == NewRef(UsedRefs)
SecondFreshRef == NewRef(UsedRefs \cup {FreshRef})

\* create, lines 199-212: the walk over `to` and the pubkeys of previous.delegations.
\* usedPublicKeys is a Set<ArrayBuffer>: has() compares object identity
RECURSIVE WalkThrows(_, _, _)
WalkThrows(usedPublicKeys, currentPublicKey, delegations) ==
  IF delegations = <<>>
  THEN currentPublicKey.ref \in usedPublicKeys
  ELSE IF currentPublicKey.ref \in usedPublicKeys
       THEN TRUE
       ELSE WalkThrows(usedPublicKeys \cup {currentPublicKey.ref},
                       Head(delegations).delegation.pubkey, Tail(delegations))

\* create, lines 198-213: the error the walk ends with, "" if none.  Without a toDer
\* method the call to.toDer() is a TypeError
CreateWalkError(to, prev, fresh) ==
  IF prev = 0 THEN ""
  ELSE IF to.toDer = "missing" THEN "TypeError"
  ELSE IF WalkThrows({}, ToDer(to, fresh), chains[prev].delegations) THEN "RepeatedPublicKey"
  ELSE ""

SingleDelegationSignsFirst(from, to, targets) ==
  IF targets.defined /\ Len(targets.list) > MAXIMUM_NUMBER_OF_TARGETS
  THEN [error |-> "TooManyTargets", signCalls |-> 1]
  ELSE IF ~from.canSign THEN [error |-> "MissingSignCapability", signCalls |-> 1]
  ELSE IF to.toDer = "missing" THEN [error |-> "MissingToDer", signCalls |-> 1]
  ELSE [error |-> "", signCalls |-> 1]

\* _createSingleDelegation up to its await: the error thrown, "" if none, and the number
\* of times from.sign has been called when it throws or suspends
CreateSingleDelegation(from, to, targets) ==
  IF targets.defined /\ Len(targets.list) > MAXIMUM_NUMBER_OF_TARGETS
  THEN [error |-> "TooManyTargets", signCalls |-> 0]
  ELSE IF ~from.canSign THEN [error |-> "MissingSignCapability", signCalls |-> 0]
  ELSE IF to.toDer = "missing" THEN [error |-> "MissingToDer", signCalls |-> 0]
  ELSE [error |-> "", signCalls |-> 1]

CallIds == 1..NumCalls

\* a create call suspended at `await from.sign(challenge)`, or a free slot
IdleCall ==
  [pc |-> "idle", from |-> SignIdentity(0, 0, FALSE), previous |-> 0, prevAtStart |-> NoChain,
   delegation |-> NoDelegation, signCalls |-> 0]

InFlight == {c \in CallIds : calls[c].pc = "signing"}

\* a request as the agent hands it to transformRequest: its body and its other fields
HttpAgentRequest(fields, body) == [fields |-> fields, body |-> body]

\* DelegationIdentity.fromDelegation(key, delegation): key is the key pair whose sign
\* method the identity calls, delegation the index of a chain
FromDelegation(key, delegation) == [inner |-> key, delegation |-> delegation]

\* a transformRequest call suspended at one of its two awaits, or a free slot
IdleRequest ==
  [pc |-> "idle", identity |-> FromDelegation(0, 0), request |-> HttpAgentRequest("", 0),
   requestId |-> <<>>]

\* the object transformRequest resolves to, with the identity and request of the call
NoTransformed ==
  [identity |-> FromDelegation(0, 0), request |-> HttpAgentRequest("", 0), fields |-> "",
   body |-> [content |-> 0, sender_sig |-> <<>>, sender_delegation |-> <<>>,
             sender_pubkey |-> <<>>]]

NoRequests == [pending |-> [r \in CallIds |-> IdleRequest], transformed |-> NoTransformed]

\* a JSON string, and a JSON value that is not a string
JString(chars) == [type |-> "string", chars |-> chars]
JNumber == [type |-> "number", chars |-> <<>>]

\* the targets member of a JSON delegation: absent, an array of values, or not an array
JNoTargets == [defined |-> FALSE, isArray |-> FALSE, items |-> <<>>]
JTargets(items) == [defined |-> TRUE, isArray |-> TRUE, items |-> items]

JDoc(publicKey, isArray, items) ==
  [publicKey |-> publicKey, delegations |-> [isArray |-> isArray, items |-> items]]

NoDoc == JDoc(JNumber, FALSE, <<>>)

\* what a call of fromJSON was given: the number of entries of delegations, whether two
\* of them name the same pubkey, and whether every member has the shape fromJSON asks for
NoDocInfo == [len |-> 0, repeats |-> FALSE, wellFormed |-> FALSE]

\* what the last settled call gave its caller: the error thrown or the index of the chain
\* returned, with the call's arguments and the number of times it called from.sign
NoRet ==
  [op |-> "", error |-> "", chain |-> 0, previous |-> 0, prevAtStart |-> NoChain,
   from |-> SignIdentity(0, 0, FALSE),
   new |-> SignedDelegation(NoDelegation, <<>>), signCalls |-> 0, arg |-> 0, doc |-> NoDocInfo]

\* create(from, to, expiration, {previous, targets}) up to `await from.sign(challenge)`
\* inside _createSingleDelegation; the walk's toDer() and the delegation's toDer() are
\* two calls, so a PublicKey that does not cache its encoding allocates two buffers.
\* A call that throws before the await settles at once; one that reaches the await
\* takes the lowest free slot.
CreateStart(c, from, to, expirationMs, targets, prev) ==
  /\ calls[c].pc = "idle"
  /\ \A b \in CallIds : b < c => calls[b].pc # "idle"
  /\ Len(chains) + Cardinality(InFlight) < MaxChains
  /\ LET fresh == FreshRef
         walkError == CreateWalkError(to, prev, fresh)
         single == CreateSingleDelegation(from, to, targets)
         delegation ==
           Delegation(ToDer(to, IF prev # 0 THEN SecondFreshRef ELSE fresh),
                      DateToNanos(expirationMs), targets)
     IN  IF walkError # ""
         THEN /\ ret' = [NoRet EXCEPT !.op = "create", !.error = walkError]
              /\ UNCHANGED calls
         ELSE IF single.error # ""
         THEN /\ ret' = [NoRet EXCEPT !.op = "create", !.error = single.error,
                                      !.signCalls = single.signCalls]
              /\ UNCHANGED calls
         ELSE /\ calls' = [calls EXCEPT ![c] =
                   [pc |-> "signing", from |-> from, previous |-> prev,
                    prevAtStart |-> IF prev = 0 THEN NoChain ELSE chains[prev],
                    delegation |-> delegation, signCalls |-> single.signCalls]]
              /\ UNCHANGED ret
  /\ UNCHANGED <<chains, json, valid, reqs>>

\* create, line 217: [...(options.previous?.delegations || []), delegation]
CreateDelegations(previousDelegations, delegation) == Append(previousDelegations, delegation)

CreatePublicKeyOfFrom(heap, prev, from) == KeyBytes(from.key)

\* create, line 218: options.previous?.publicKey || from.getPublicKey().toDer()
CreatePublicKey(heap, prev, from) ==
  IF prev # 0 THEN heap[prev].publicKey ELSE KeyBytes(from.key)

StoreChainPushed(heap, prev, delegations, publicKey) ==
  Append(IF prev # 0 THEN [heap EXCEPT ![prev].delegations = delegations] ELSE heap,
         DelegationChain(delegations, publicKey, 0))

\* create, lines 216-219: the chain is a new object holding a new array; the constructor
\* is called with two arguments, so the chain's previous is undefined
StoreChain(heap, prev, delegations, publicKey) ==
  Append(heap, DelegationChain(delegations, publicKey, 0))

\* from.sign resolves: _createSingleDelegation returns {delegation, signature}, create
\* resumes and constructs the chain it returns
SignResolve(c) ==
  /\ calls[c].pc = "signing"
  /\ LET call == calls[c]
         signature == SignBytes(call.from.signer, Challenge(call.delegation))
         new == SignedDelegation(call.delegation, signature)
         prevDelegations ==
           IF call.previous # 0 THEN chains[call.previous].delegations ELSE <<>>
         delegations == CreateDelegations(prevDelegations, new)
         settled == [NoRet EXCEPT !.op = "create", !.previous = call.previous,
                                  !.prevAtStart = call.prevAtStart, !.from = call.from,
                                  !.new = new, !.signCalls = call.signCalls]
     IN  IF ConstructorThrows(delegations)
         THEN /\ ret' = [settled EXCEPT !.error = "ChainTooLong"]
              /\ UNCHANGED chains
         ELSE /\ chains' = StoreChain(chains, call.previous, delegations,
                                      CreatePublicKey(chains, call.previous, call.from))
              /\ ret' = [settled EXCEPT !.chain = Len(chains) + 1]
  /\ calls' = [calls EXCEPT ![c] = IdleCall]
  /\ UNCHANGED <<json, valid, reqs>>

\* DelegationChain.fromDelegations(delegations, publicKey)
FromDelegations(delegations, publicKey) ==
  /\ Len(chains) + Cardinality(InFlight) < MaxChains
  /\ IF ConstructorThrows(delegations)
     THEN /\ ret' = [NoRet EXCEPT !.op = "fromDelegations", !.error = "ChainTooLong",
                                  !.arg = Len(delegations)]
          /\ UNCHANGED chains
     ELSE /\ chains' = Append(chains, DelegationChain(delegations, publicKey, 0))
          /\ ret' = [NoRet EXCEPT !.op = "fromDelegations", !.chain = Len(chains) + 1,
                                  !.arg = Len(delegations)]
  /\ UNCHANGED <<calls, json, valid, reqs>>

----------------------------------------------------------------------------
(* JSON form: toJSON, fromJSON, _parseBlob *)

\* _parseBlob throws 'Invalid public key.'
ParseBlobThrows(value) == value.type # "string" \/ Len(value.chars) < MinBlobHexLength

\* _parseBlob
ParseBlob(value) == FromHexString(value.chars)

ToJSONDocDropsEmptyTargets(delegations, publicKey) ==
  JDoc(JString(ToHexString(publicKey)), TRUE,
       [i \in 1..Len(delegations) |->
          LET delegation == delegations[i].delegation
          IN  [delegation |->
                 [expiration |-> JString(BigIntToString16(delegation.expiration)),
                  pubkey |-> JString(ToHexString(delegation.pubkey.bytes)),
                  targets |->
                    IF delegation.targets.defined /\ delegation.targets.list # <<>>
                    THEN JTargets([t \in 1..Len(delegation.targets.list) |->
                                     JString(PrincipalToHex(delegation.targets.list[t]))])
                    ELSE JNoTargets],
               signature |-> JString(ToHexString(delegations[i].signature))]])

\* DelegationChain.toJSON() of a chain with these delegations and this public key
ToJSONDoc(delegations, publicKey) ==
  JDoc(JString(ToHexString(publicKey)), TRUE,
       [i \in 1..Len(delegations) |->
          LET delegation == delegations[i].delegation
          IN  [delegation |->
                 [expiration |-> JString(BigIntToString16(delegation.expiration)),
                  pubkey |-> JString(ToHexString(delegation.pubkey.bytes)),
                  targets |->
                    IF delegation.targets.defined
                    THEN JTargets([t \in 1..Len(delegation.targets.list) |->
                                     JString(PrincipalToHex(delegation.targets.list[t]))])
                    ELSE JNoTargets],
               signature |-> JString(ToHexString(delegations[i].signature))]])

\* fromJSON, lines 234-253: the error one entry of delegations throws, "" if none
EntryError(entry) ==
  LET targets == entry.delegation.targets
  IN  IF targets.defined /\ ~targets.isArray THEN "InvalidTargets"
      ELSE IF ParseBlobThrows(entry.delegation.pubkey) THEN "InvalidPublicKey"
      ELSE IF BigIntSyntaxError(entry.delegation.expiration.chars) THEN "SyntaxError"
      ELSE IF targets.defined /\ \E t \in 1..Len(targets.items) : targets.items[t].type # "string"
           THEN "InvalidTarget"
      ELSE IF targets.defined /\ Len(targets.items) > MAXIMUM_NUMBER_OF_TARGETS
           THEN "TooManyTargets"
      ELSE IF ParseBlobThrows(entry.signature) THEN "InvalidPublicKey"
      ELSE ""

\* fromJSON, lines 240-253: the SignedDelegation built from one entry; its pubkey is a
\* new buffer
ParseEntry(entry, ref) ==
  LET targets == entry.delegation.targets
  IN  SignedDelegation(
        Delegation(Buf(ref, ParseBlob(entry.delegation.pubkey)),
                   HexValue(entry.delegation.expiration.chars),
                   IF targets.defined
                   THEN Targets([t \in 1..Len(targets.items) |->
                                   PrincipalFromHex(targets.items[t].chars)])
                   ELSE Undefined),
        ParseBlob(entry.signature))

\* the error of the first entry that throws, "" if none does
RECURSIVE FirstEntryError(_)
FirstEntryError(items) ==
  IF items = <<>> THEN ""
  ELSE IF EntryError(Head(items)) # "" THEN EntryError(Head(items))
  ELSE FirstEntryError(Tail(items))

FromJSONErrorUncapped(doc) ==
  IF ~doc.delegations.isArray THEN "InvalidDelegations"
  ELSE IF FirstEntryError(doc.delegations.items) # ""
       THEN FirstEntryError(doc.delegations.items)
  ELSE IF ParseBlobThrows(doc.publicKey) THEN "InvalidPublicKey"
  ELSE ""

\* fromJSON: the error it throws, "" if none; `new this(...)` runs the constructor's
\* length check after the delegations and the public key are parsed
FromJSONError(doc) ==
  IF ~doc.delegations.isArray THEN "InvalidDelegations"
  ELSE IF FirstEntryError(doc.delegations.items) # ""
       THEN FirstEntryError(doc.delegations.items)
  ELSE IF ParseBlobThrows(doc.publicKey) THEN "InvalidPublicKey"
  ELSE IF ConstructorThrows(doc.delegations.items) THEN "ChainTooLong"
  ELSE ""

\* every member of the document has the type and the length fromJSON asks for
WellFormedDoc(doc) ==
  /\ doc.delegations.isArray
  /\ \A i \in 1..Len(doc.delegations.items) : EntryError(doc.delegations.items[i]) = ""
  /\ ~ParseBlobThrows(doc.publicKey)

DocInfo(doc) ==
  [len |-> Len(doc.delegations.items),
   repeats |-> \E i, j \in 1..Len(doc.delegations.items) :
                 /\ i # j
                 /\ doc.delegations.items[i].delegation.pubkey
                      = doc.delegations.items[j].delegation.pubkey,
   wellFormed |-> WellFormedDoc(doc)]

\* identities of n newly allocated buffers
RECURSIVE NewRefs(_, _)
NewRefs(used, n) ==
  IF n = 0 THEN <<>> ELSE <<NewRef(used)>> \o NewRefs(used \cup {NewRef(used)}, n - 1)

NoJson == [src |-> 0, doc |-> NoDoc]

\* chain.toJSON() of chain i
ToJSON(i) ==
  /\ i \in 1..Len(chains)
  /\ json' = [src |-> i, doc |-> ToJSONDoc(chains[i].delegations, chains[i].publicKey)]
  /\ ret' = [NoRet EXCEPT !.op = "toJSON", !.arg = i]
  /\ UNCHANGED <<chains, calls, valid, reqs>>

\* DelegationChain.fromJSON(doc); src is the chain doc was serialized from, 0 when the
\* caller made doc some other way
FromJSON(doc, src) ==
  /\ Len(chains) + Cardinality(InFlight) < MaxChains
  /\ LET error == FromJSONError(doc)
         items == doc.delegations.items
         refs == NewRefs(UsedRefs, Len(items))
     IN  IF error # ""
         THEN /\ ret' = [NoRet EXCEPT !.op = "fromJSON", !.error = error, !.arg = src,
                                      !.doc = DocInfo(doc)]
              /\ UNCHANGED chains
         ELSE /\ chains' = Append(chains,
                     DelegationChain([i \in 1..Len(items) |-> ParseEntry(items[i], refs[i])],
                                     ParseBlob(doc.publicKey), 0))
              /\ ret' = [NoRet EXCEPT !.op = "fromJSON", !.chain = Len(chains) + 1,
                                      !.arg = src, !.doc = DocInfo(doc)]
  /\ UNCHANGED <<calls, json, valid, reqs>>

----------------------------------------------------------------------------
(* isDelegationValid *)

\* BigInt division truncates towards zero
BigIntDiv(a, b) == IF a >= 0 THEN a \div b ELSE -((-a) \div b)

ExpiredBefore(delegation, now) == BigIntDiv(delegation.expiration, NanosPerMilli) < now

\* line 382: +new Date(Number(delegation.expiration / BigInt(1000000))) <= +Date.now()
Expired(delegation, now) == BigIntDiv(delegation.expiration, NanosPerMilli) <= now

\* lines 380-385: the loop returns false at the first expired delegation
RECURSIVE SomeExpired(_, _)
SomeExpired(delegations, now) ==
  IF delegations = <<>> THEN FALSE
  ELSE IF Expired(Head(delegations).delegation, now) THEN TRUE
  ELSE SomeExpired(Tail(delegations), now)

\* checks.scope: undefined, one scope, or an array of scopes; a scope is a Principal or
\* the text of one
NoScope == [kind |-> "undefined", items |-> <<>>]
OneScope(s) == [kind |-> "single", items |-> <<s>>]
ScopeArray(items) == [kind |-> "array", items |-> items]
AsPrincipal(p) == [type |-> "principal", value |-> p]
AsText(p) == [type |-> "string", value |-> PrincipalToText(p)]

\* lines 388-396: the Principals to check
Scopes(maybeScope) ==
  [i \in 1..Len(maybeScope.items) |->
     IF maybeScope.items[i].type = "string"
     THEN PrincipalFromText(maybeScope.items[i].value)
     ELSE maybeScope.items[i].value]

\* lines 405-411: no target of the delegation has the scope's text
RECURSIVE None(_, _)
None(targets, scope) ==
  IF targets = <<>> THEN TRUE
  ELSE IF PrincipalToText(Head(targets)) = scope THEN FALSE
  ELSE None(Tail(targets), scope)

ScopeListedNowhere(delegations, scope) ==
  LET bearing == {i \in 1..Len(delegations) : delegations[i].delegation.targets.defined}
  IN  /\ bearing # {}
      /\ \A i \in bearing : None(delegations[i].delegation.targets.list, scope)

\* lines 400-415: some delegation that defines targets does not list the scope
RECURSIVE ScopeMissing(_, _)
ScopeMissing(delegations, scope) ==
  IF delegations = <<>> THEN FALSE
  ELSE IF ~Head(delegations).delegation.targets.defined
       THEN ScopeMissing(Tail(delegations), scope)
  ELSE IF None(Head(delegations).delegation.targets.list, scope) THEN TRUE
  ELSE ScopeMissing(Tail(delegations), scope)

\* lines 398-416: the loop over the scopes returns false at the first scope that fails
RECURSIVE SomeScopeFails(_, _)
SomeScopeFails(scopes, delegations) ==
  IF scopes = <<>> THEN FALSE
  ELSE IF ScopeMissing(delegations, PrincipalToText(Head(scopes))) THEN TRUE
  ELSE SomeScopeFails(Tail(scopes), delegations)

\* isDelegationValid(chain, {scope}) when Date.now() is `now`
IsDelegationValidResult(chain, now, maybeScope) ==
  IF SomeExpired(chain.delegations, now) THEN FALSE
  ELSE ~SomeScopeFails(Scopes(maybeScope), chain.delegations)

NoValid == [chain |-> 0, now |-> 0, scope |-> NoScope, result |-> FALSE]

IsDelegationValid(i, now, maybeScope) ==
  /\ i \in 1..Len(chains)
  /\ valid' = [chain |-> i, now |-> now, scope |-> maybeScope,
               result |-> IsDelegationValidResult(chains[i], now, maybeScope)]
  /\ UNCHANGED <<chains, calls, ret, json, reqs>>

\* Inputs of the validity specification: chains of up to MaxValidLen delegations whose
\* expirations lie around the values of Date.now()
ValidExpirations ==
  {DateToNanos(MaxNow) - 1, DateToNanos(MaxNow), DateToNanos(MaxNow) + 1, DateToNanos(MaxNow + 1)}

ValidTargets == {Undefined, Targets(<<>>), Targets(<<PrincipalA>>), Targets(<<PrincipalA, PrincipalB>>)}

ValidDelegations ==
  {SignedDelegation(Delegation(CachedDer(2), e, t), Rep(SigLen, 7)) :
     e \in ValidExpirations, t \in ValidTargets}

ValidLists == UNION {[1..n -> ValidDelegations] : n \in 0..MaxValidLen}

ValidScopes ==
  {NoScope, OneScope(AsPrincipal(PrincipalA)), OneScope(AsText(PrincipalB)), ScopeArray(<<>>),
   ScopeArray(<<AsPrincipal(PrincipalA), AsText(PrincipalB)>>),
   ScopeArray(<<AsText(PrincipalA)>>)}

InitValid ==
  /\ chains \in {<<DelegationChain(l, KeyBytes(1), 0)>> : l \in ValidLists}
  /\ calls = [c \in CallIds |-> IdleCall]
  /\ ret = NoRet
  /\ json = NoJson
  /\ valid = NoValid
  /\ reqs = NoRequests

NextValid == \E now \in (MaxNow - 1)..MaxNow, scope \in ValidScopes : IsDelegationValid(1, now, scope)

SpecValid == InitValid /\ [][NextValid]_vars

----------------------------------------------------------------------------
(* DelegationIdentity *)

\* DelegationIdentity.sign(blob): the inner key signs
Sign(identity, blob) == SignBytes(identity.inner, blob)

SenderSigChallengeOfDelegationDomain(requestId) == domainSeparator \o requestId

\* the bytes sender_sig covers: requestDomainSeparator, then the request id
SenderSigChallenge(requestId) == requestDomainSeparator \o requestId

\* transformRequest up to `await requestIdOf(body)`: body and fields are split
TransformRequest(r, identity, request) ==
  /\ reqs.pending[r].pc = "idle"
  /\ \A q \in CallIds : q < r => reqs.pending[q].pc # "idle"
  /\ identity.delegation \in 1..Len(chains)
  /\ reqs' = [reqs EXCEPT !.pending[r] =
                [pc |-> "requestIdOf", identity |-> identity, request |-> request,
                 requestId |-> <<>>]]
  /\ UNCHANGED <<chains, calls, ret, json, valid>>

\* requestIdOf(body) resolves; this.sign(...) is called and awaited
RequestIdResolve(r) ==
  /\ reqs.pending[r].pc = "requestIdOf"
  /\ reqs' = [reqs EXCEPT !.pending[r].pc = "sign",
                          !.pending[r].requestId = RequestIdOfBody(reqs.pending[r].request.body)]
  /\ UNCHANGED <<chains, calls, ret, json, valid>>

\* the inner key's signature arrives: the rest of the object literal is evaluated and
\* the call resolves
TransformSignResolve(r) ==
  /\ reqs.pending[r].pc = "sign"
  /\ LET call == reqs.pending[r]
         delegation == chains[call.identity.delegation]
     IN  reqs' = [pending |-> [reqs.pending EXCEPT ![r] = IdleRequest],
                  transformed |->
                    [identity |-> call.identity, request |-> call.request,
                     fields |-> call.request.fields,
                     body |-> [content |-> call.request.body,
                               sender_sig |->
                                 Sign(call.identity, SenderSigChallenge(call.requestId)),
                               sender_delegation |-> delegation.delegations,
                               sender_pubkey |-> delegation.publicKey]]]
  /\ UNCHANGED <<chains, calls, ret, json, valid>>

\* Inputs of the request specification: a chain in which key 1 delegates to key 2 and
\* key 2 to key 3, as create returns it, and the empty chain of key 1
GenuineDelegation(signer, to) ==
  LET delegation == Delegation(CachedDer(to), DateToNanos(2), Undefined)
  IN  SignedDelegation(delegation, SignBytes(signer, Challenge(delegation)))

RequestChains ==
  << DelegationChain(<<GenuineDelegation(1, 2), GenuineDelegation(2, 3)>>, KeyBytes(1), 0),
     DelegationChain(<<>>, KeyBytes(1), 0) >>

\* identities holding the last delegated key, a key from the middle of the chain, and
\* the root key of the empty chain
Identities == {FromDelegation(3, 1), FromDelegation(2, 1), FromDelegation(1, 2)}

Requests ==
  {HttpAgentRequest("call", b) : b \in 1..NumBodies} \cup {HttpAgentRequest("read_state", 1)}

InitRequest ==
  /\ chains = RequestChains
  /\ calls = [c \in CallIds |-> IdleCall]
  /\ ret = NoRet
  /\ json = NoJson
  /\ valid = NoValid
  /\ reqs = NoRequests

NextRequest ==
  \/ \E r \in CallIds, identity \in Identities, request \in Requests :
       TransformRequest(r, identity, request)
  \/ \E r \in CallIds : RequestIdResolve(r)
  \/ \E r \in CallIds : TransformSignResolve(r)

SpecRequest == InitRequest /\ [][NextRequest]_vars

----------------------------------------------------------------------------
(* Inputs of the chain-construction specification *)

Froms == {SignIdentity(1, 1, TRUE), SignIdentity(2, 2, TRUE), SignIdentity(2, 2, FALSE)}

Tos == {PublicKey(1, "cached"), PublicKey(2, "fresh"), PublicKey(1, "missing")}

\* expiration dates, in milliseconds since the epoch
ExpirationDates == {2}

CreateTargets == {TargetChoices[1], TargetChoices[7]}

\* a list of n signed delegations to n different keys, as a caller of fromDelegations
\* may hand in: nothing says the signatures are genuine
LongList(n) ==
  [i \in 1..n |->
     SignedDelegation(Delegation(Buf(-(NumKeys + i), <<i>>), DateToNanos(2), Undefined), <<i>>)]

\* the same Delegation object twice
DupRefList == <<LongList(1)[1], LongList(1)[1]>>

\* two delegations whose pubkeys are different buffers holding the same bytes
DupBytesList ==
  <<LongList(1)[1],
    SignedDelegation(Delegation(Buf(-(NumKeys + 2), <<1>>), DateToNanos(2), Undefined), <<1>>)>>

DelegationLists ==
  {<<>>, DupRefList, DupBytesList} \cup
  {LongList(n) : n \in (MAXIMUM_DELEGATION_CHAIN_LENGTH - 1)..(MAXIMUM_DELEGATION_CHAIN_LENGTH + ExtraLen)}


Init ==
  /\ chains = <<>>
  /\ calls = [c \in CallIds |-> IdleCall]
  /\ ret = NoRet
  /\ json = NoJson
  /\ valid = NoValid
  /\ reqs = NoRequests

Next ==
  \/ \E c \in CallIds, from \in Froms, to \in Tos, e \in ExpirationDates,
        t \in CreateTargets, prev \in 0..Len(chains) :
       CreateStart(c, from, to, e, t, prev)
  \/ \E c \in CallIds : SignResolve(c)

Spec == Init /\ [][Next]_vars

\* Chains at the length limit: callers hand fromDelegations lists of up to
\* MAXIMUM_DELEGATION_CHAIN_LENGTH + ExtraLen delegations and extend the chains with create
NextCap ==
  \/ \E l \in DelegationLists : FromDelegations(l, KeyBytes(1))
  \/ \E c \in CallIds, to \in {PublicKey(1, "cached"), PublicKey(2, "fresh")},
        prev \in 0..Len(chains) :
       CreateStart(c, SignIdentity(1, 1, TRUE), to, 2, Undefined, prev)
  \/ \E c \in CallIds : SignResolve(c)

SpecCap == Init /\ [][NextCap]_vars

----------------------------------------------------------------------------
(* Inputs of the JSON specification *)

JsonSigned(k, expiration, targets, signature) ==
  SignedDelegation(Delegation(CachedDer(k), expiration, targets), signature)

\* the lists handed to fromDelegations: nothing constrains the bytes or the expiration of
\* a Delegation object a caller constructs
JsonLists ==
  { <<>>,
    <<JsonSigned(1, DateToNanos(2), Undefined, Rep(SigLen, 7))>>,
    <<JsonSigned(1, DateToNanos(2) + 1, Targets(<<PrincipalA, PrincipalB>>), Rep(SigLen, 7)),
      JsonSigned(2, 0, Targets(<<>>), Rep(SigLen, 255))>>,
    <<JsonSigned(ShortKey, DateToNanos(2), Undefined, Rep(SigLen, 7))>>,
    <<JsonSigned(1, DateToNanos(2), Undefined, Rep(KeyLen - 1, 7))>>,
    <<JsonSigned(1, -1, Undefined, Rep(SigLen, 7))>> }

\* n delegations to the same key
RepeatList(n) == [i \in 1..n |-> JsonSigned(1, DateToNanos(2), Undefined, Rep(SigLen, i))]

\* n delegations to n different keys
WideList(n) ==
  [i \in 1..n |->
     SignedDelegation(Delegation(Buf(0, Rep(KeyLen, i)), DateToNanos(2), Undefined),
                      Rep(SigLen, i))]

\* documents a caller writes by hand or alters after toJSON
TamperedDocs ==
  {ToJSONDoc(RepeatList(n), KeyBytes(1)) :
     n \in {2} \cup (MAXIMUM_DELEGATION_CHAIN_LENGTH..(MAXIMUM_DELEGATION_CHAIN_LENGTH + ExtraLen))}
  \cup {ToJSONDoc(WideList(MAXIMUM_DELEGATION_CHAIN_LENGTH + ExtraLen), KeyBytes(1))}
  \cup { JDoc(JString(ToHexString(KeyBytes(1))), FALSE, <<>>),
         JDoc(JNumber, TRUE, <<>>),
         JDoc(JString(ToHexString(KeyBytes(1))), TRUE,
              <<[delegation |-> [expiration |-> JString(<<1>>),
                                 pubkey |-> JString(ToHexString(KeyBytes(1))),
                                 targets |-> [defined |-> TRUE, isArray |-> FALSE, items |-> <<>>]],
                 signature |-> JString(ToHexString(Rep(SigLen, 7)))]>>),
         JDoc(JString(ToHexString(KeyBytes(1))), TRUE,
              <<[delegation |-> [expiration |-> JString(<<1>>),
                                 pubkey |-> JString(ToHexString(KeyBytes(1))),
                                 targets |-> JTargets(<<JNumber>>)],
                 signature |-> JString(ToHexString(Rep(SigLen, 7)))]>>) }

\* the chains handed to fromDelegations: a list and a root public key
JsonChains ==
  {<<l, KeyBytes(1)>> : l \in JsonLists} \cup {<<RepeatList(1), KeyBytes(ShortKey)>>}

JsonRoom == Len(chains) + Cardinality(InFlight) < MaxJsonChains

NextJson ==
  \/ \E in \in JsonChains : JsonRoom /\ FromDelegations(in[1], in[2])
  \/ \E c \in CallIds, e \in {-1, 2}, prev \in 0..Len(chains) :
       JsonRoom /\ CreateStart(c, SignIdentity(1, 1, TRUE), PublicKey(2, "cached"), e,
                               Undefined, prev)
  \/ \E c \in CallIds : SignResolve(c)
  \/ \E i \in 1..Len(chains) : ToJSON(i)
  \/ JsonRoom /\ json.src # 0 /\ FromJSON(json.doc, json.src)
  \/ \E d \in TamperedDocs : JsonRoom /\ FromJSON(d, 0)

SpecJson == Init /\ [][NextJson]_vars

----------------------------------------------------------------------------
(* Claims about chain construction *)

PubkeyBytes(delegations) == [i \in 1..Len(delegations) |-> delegations[i].delegation.pubkey.bytes]

\* the walk over `to` and the chain's pubkeys meets the same bytes twice
RepeatsBytes(toBytes, delegations) ==
  LET walk == <<toBytes>> \o PubkeyBytes(delegations)
  IN  \E i, j \in 1..Len(walk) : i # j /\ walk[i] = walk[j]

\* C1: a create call whose delegate key's bytes equal the pubkey of a delegation of
\* previous, or whose previous holds two delegations with the same pubkey bytes, fails
\* with RepeatedPublicKey: it never gets as far as from.sign
C1_RepeatedKeyFails ==
  \A c \in CallIds :
    calls[c].pc = "signing" /\ calls[c].previous # 0
      => ~RepeatsBytes(calls[c].delegation.pubkey.bytes, calls[c].prevAtStart.delegations)

\* the chain's last delegated key, its root key when it has no delegation
LastKey(chain) ==
  IF chain.delegations = <<>> THEN chain.publicKey
  ELSE chain.delegations[Len(chain.delegations)].delegation.pubkey.bytes

\* a linked trust path: delegation 1 is signed by the root key, delegation i by the key
\* delegation i-1 delegates to
Linked(chain) ==
  \A i \in 1..Len(chain.delegations) :
    Verifies(IF i = 1 THEN chain.publicKey
             ELSE chain.delegations[i - 1].delegation.pubkey.bytes,
             Challenge(chain.delegations[i].delegation),
             chain.delegations[i].signature)

\* C8 as stated: every chain made by create calls is a linked trust path
C8_EveryChainLinked == \A i \in 1..Len(chains) : Linked(chains[i])

\* `from` signs with the key pair of its own public key, and that key is the one the
\* chain it extends last delegates to
FromContinues(from, prev, previous) ==
  /\ from.signer = from.key
  /\ prev # 0 => KeyBytes(from.key) = LastKey(previous)

\* C8 amended: a create call whose `from` signs with the key pair of its public key and,
\* when it extends a chain, holds the key that chain last delegates to, returns a linked
\* trust path if the chain it extends is one; create does not check who `from` is
C8_LinkedWhenFromContinues ==
  ret.op = "create" /\ ret.error = "" /\ FromContinues(ret.from, ret.previous, ret.prevAtStart)
    /\ (ret.previous # 0 => Linked(ret.prevAtStart))
    => Linked(chains[ret.chain])

C8_Witness ==
  /\ ret.op = "create" /\ ret.error = "" /\ ret.previous # 0
  /\ Len(ret.prevAtStart.delegations) >= 1
  /\ FromContinues(ret.from, ret.previous, ret.prevAtStart)
  /\ Linked(ret.prevAtStart)
  /\ Len(chains[ret.chain].delegations) >= 2

\* C9: a settled create call returns previous.delegations followed by its own new signed
\* delegation and nothing else, under previous.public_key (from's DER key without
\* previous), and the previous chain of every call, settled or suspended, is as it was
\* when the call was made
C9_ResultIsPreviousPlusOwn ==
  /\ ret.op = "create" /\ ret.error = "" =>
       /\ chains[ret.chain].delegations = Append(ret.prevAtStart.delegations, ret.new)
       /\ chains[ret.chain].publicKey =
            IF ret.previous # 0 THEN ret.prevAtStart.publicKey ELSE KeyBytes(ret.from.key)
       /\ ret.previous # 0 => chains[ret.previous] = ret.prevAtStart
  /\ \A c \in CallIds :
       calls[c].pc = "signing" /\ calls[c].previous # 0
         => chains[calls[c].previous] = calls[c].prevAtStart

\* two calls share a previous chain: one has settled, the other is still at its sign
C9_Witness ==
  /\ ret.op = "create" /\ ret.error = "" /\ ret.previous # 0
  /\ \E c \in CallIds : calls[c].pc = "signing" /\ calls[c].previous = ret.previous

\* C10: from.sign is called at most once per create, a call is suspended only after it
\* has called from.sign, and a call that fails with RepeatedPublicKey, TooManyTargets or
\* MissingSignCapability has not called it
C10_SignOnceAfterChecks ==
  /\ \A c \in CallIds :
       /\ calls[c].signCalls <= 1
       /\ calls[c].pc = "signing" <=> calls[c].signCalls = 1
  /\ ret.op = "create" =>
       /\ ret.signCalls <= 1
       /\ ret.error \in {"RepeatedPublicKey", "TooManyTargets", "MissingSignCapability"}
            => ret.signCalls = 0
       /\ ret.error \in {"", "ChainTooLong"} => ret.signCalls = 1

C10_Witness ==
  /\ ret.op = "create" /\ ret.error = "MissingSignCapability" /\ ret.signCalls = 0
  /\ \E c \in CallIds : calls[c].pc = "signing"

\* C2: no chain has more than 20 delegations; a create call that got its signature returns
\* a chain one longer than a previous of fewer than 20 delegations and fails with
\* ChainTooLong on a previous of 20; fromDelegations fails with ChainTooLong exactly on
\* more than 20 delegations
C2_LengthCap ==
  /\ \A i \in 1..Len(chains) : Len(chains[i].delegations) <= MAXIMUM_DELEGATION_CHAIN_LENGTH
  /\ ret.op = "create" /\ ret.signCalls = 1 =>
       IF Len(ret.prevAtStart.delegations) < MAXIMUM_DELEGATION_CHAIN_LENGTH
       THEN /\ ret.error = ""
            /\ Len(chains[ret.chain].delegations) = Len(ret.prevAtStart.delegations) + 1
       ELSE ret.error = "ChainTooLong" /\ ret.chain = 0
  /\ ret.op = "fromDelegations" =>
       /\ ret.error = "ChainTooLong" <=> ret.arg > MAXIMUM_DELEGATION_CHAIN_LENGTH
       /\ ret.error = "" => Len(chains[ret.chain].delegations) = ret.arg
       /\ ret.error # "" => ret.chain = 0

\* a create call on a chain of 20 delegations failed, after one on a chain of 19 succeeded
C2_Witness ==
  /\ ret.op = "create" /\ ret.error = "ChainTooLong"
  /\ Len(ret.prevAtStart.delegations) = MAXIMUM_DELEGATION_CHAIN_LENGTH
  /\ \E i \in 1..Len(chains) :
       /\ Len(chains[i].delegations) = MAXIMUM_DELEGATION_CHAIN_LENGTH
       /\ Verifies(KeyBytes(1), Challenge(chains[i].delegations[Len(chains[i].delegations)].delegation),
                   chains[i].delegations[Len(chains[i].delegations)].signature)

----------------------------------------------------------------------------
(* Claims about the JSON form *)

\* C3 as stated: fromJSON returns every well-formed document's chain with all of its
\* delegations, also when they are more than 20 or repeat a public key
C3_FromJSONNeverRevalidates ==
  ret.op = "fromJSON" /\ ret.doc.wellFormed
    /\ (ret.doc.len > MAXIMUM_DELEGATION_CHAIN_LENGTH \/ ret.doc.repeats)
    => ret.error = "" /\ Len(chains[ret.chain].delegations) = ret.doc.len

\* C3 amended: fromJSON does not look for repeated public keys, but its constructor call
\* enforces the length limit: a well-formed document of at most 20 delegations gives a
\* chain with all of them, repeated keys included; one of more than 20 fails with
\* ChainTooLong
C3_FromJSONChecksLengthOnly ==
  ret.op = "fromJSON" /\ ret.doc.wellFormed =>
    IF ret.doc.len > MAXIMUM_DELEGATION_CHAIN_LENGTH
    THEN ret.error = "ChainTooLong" /\ ret.chain = 0
    ELSE /\ ret.error = ""
         /\ Len(chains[ret.chain].delegations) = ret.doc.len
         /\ ret.doc.repeats =>
              \E i, j \in 1..ret.doc.len :
                /\ i # j
                /\ chains[ret.chain].delegations[i].delegation.pubkey.bytes
                     = chains[ret.chain].delegations[j].delegation.pubkey.bytes

\* a document of 20 delegations to one key was accepted, and a longer one has failed
C3_Witness ==
  /\ ret.op = "fromJSON" /\ ret.doc.wellFormed /\ ret.error = "ChainTooLong"
  /\ \E i \in 1..Len(chains) :
       /\ Len(chains[i].delegations) = MAXIMUM_DELEGATION_CHAIN_LENGTH
       /\ chains[i].delegations[1].delegation.pubkey.bytes
            = chains[i].delegations[2].delegation.pubkey.bytes

\* the same public key and the same delegations in the same order
SameChain(a, b) ==
  /\ a.publicKey = b.publicKey
  /\ Len(a.delegations) = Len(b.delegations)
  /\ \A i \in 1..Len(a.delegations) :
       /\ a.delegations[i].delegation.pubkey.bytes = b.delegations[i].delegation.pubkey.bytes
       /\ a.delegations[i].delegation.expiration = b.delegations[i].delegation.expiration
       /\ a.delegations[i].delegation.targets = b.delegations[i].delegation.targets
       /\ a.delegations[i].signature = b.delegations[i].signature

\* C4 as stated: fromJSON(toJSON(c)) succeeds and gives c's public key and delegations,
\* whatever the bytes and the expirations of c
C4_RoundTripAny ==
  ret.op = "fromJSON" /\ ret.arg # 0
    => ret.error = "" /\ SameChain(chains[ret.chain], chains[ret.arg])

\* what _parseBlob and BigInt ask of a chain: public keys and signatures of at least 32
\* bytes, expirations that are not negative
Serializable(chain) ==
  /\ 2 * Len(chain.publicKey) >= MinBlobHexLength
  /\ \A i \in 1..Len(chain.delegations) :
       /\ 2 * Len(chain.delegations[i].delegation.pubkey.bytes) >= MinBlobHexLength
       /\ 2 * Len(chain.delegations[i].signature) >= MinBlobHexLength
       /\ chain.delegations[i].delegation.expiration >= 0

\* C4 amended: the round trip holds for the chains whose public keys and signatures are
\* at least 32 bytes long and whose expirations are not negative
C4_RoundTripSerializable ==
  ret.op = "fromJSON" /\ ret.arg # 0 /\ Serializable(chains[ret.arg])
    => ret.error = "" /\ SameChain(chains[ret.chain], chains[ret.arg])

C4_Witness ==
  /\ ret.op = "fromJSON" /\ ret.arg # 0 /\ ret.error = ""
  /\ Serializable(chains[ret.arg])
  /\ Len(chains[ret.arg].delegations) = 2
  /\ chains[ret.arg].delegations[1].delegation.targets.defined
  /\ chains[ret.chain].delegations[1].delegation.pubkey.ref
       # chains[ret.arg].delegations[1].delegation.pubkey.ref

----------------------------------------------------------------------------
(* Claims about isDelegationValid *)

\* C5 as stated: without a scope, the result is false when some delegation's expiration
\* in nanoseconds is <= now, and true when every expiration is greater than now
C5_ValidIffAllAfterNow ==
  valid.chain # 0 /\ valid.scope.kind = "undefined" =>
    valid.result =
      \A i \in 1..Len(chains[valid.chain].delegations) :
        chains[valid.chain].delegations[i].delegation.expiration > DateToNanos(valid.now)

\* no delegation expires within the millisecond of now or before it
Unexpired(chain, now) ==
  \A i \in 1..Len(chain.delegations) :
    chain.delegations[i].delegation.expiration >= DateToNanos(now + 1)

\* C5 amended: expirations are compared in whole milliseconds.  Without a scope, the
\* result is false when some delegation, first to last, expires before the end of the
\* millisecond of now, and true when every delegation expires at least one millisecond
\* after now (the empty chain included)
C5_ValidIffAllAfterNowMs ==
  valid.chain # 0 /\ valid.scope.kind = "undefined" =>
    valid.result = Unexpired(chains[valid.chain], valid.now)

\* the first delegation has expired, the last has not
C5_Witness ==
  /\ valid.chain # 0 /\ valid.scope.kind = "undefined" /\ ~valid.result
  /\ Len(chains[valid.chain].delegations) = 2
  /\ chains[valid.chain].delegations[1].delegation.expiration = DateToNanos(valid.now)
  /\ chains[valid.chain].delegations[2].delegation.expiration > DateToNanos(valid.now + 1) - 1

RequestedScopes(maybeScope) == {Scopes(maybeScope)[i] : i \in 1..Len(maybeScope.items)}

\* C6: for an unexpired chain the result is true exactly when every requested scope is
\* among the targets of every delegation that defines targets
C6_ValidIffEveryScopeInEveryTargets ==
  valid.chain # 0 /\ Unexpired(chains[valid.chain], valid.now) =>
    valid.result =
      \A s \in RequestedScopes(valid.scope) :
        \A i \in 1..Len(chains[valid.chain].delegations) :
          chains[valid.chain].delegations[i].delegation.targets.defined
            => s \in Range(chains[valid.chain].delegations[i].delegation.targets.list)

\* scope B is listed by one delegation and missing from another: invalid
C6_Witness ==
  /\ valid.chain # 0 /\ Unexpired(chains[valid.chain], valid.now) /\ ~valid.result
  /\ PrincipalB \in RequestedScopes(valid.scope)
  /\ Len(chains[valid.chain].delegations) = 2
  /\ chains[valid.chain].delegations[1].delegation.targets = Targets(<<PrincipalA, PrincipalB>>)
  /\ chains[valid.chain].delegations[2].delegation.targets = Targets(<<PrincipalA>>)

----------------------------------------------------------------------------
(* Claims about DelegationIdentity.transformRequest *)

\* the object a transformRequest call resolved to carries the request's other fields
\* unchanged, the body as content, and the chain's delegations and root public key
EnvelopeCarriesRequestAndChain ==
  LET t == reqs.transformed
      chain == chains[t.identity.delegation]
  IN  /\ t.fields = t.request.fields
      /\ t.body.content = t.request.body
      /\ t.body.sender_delegation = chain.delegations
      /\ t.body.sender_pubkey = chain.publicKey

\* C7 as stated: for every identity built from a signing key and a chain, the envelope
\* carries the request and the chain, and sender_sig verifies against the chain's last
\* delegated public key over requestDomainSeparator || hash(body)
C7_SigVerifiesAgainstLastDelegatedKey ==
  reqs.transformed.identity.delegation # 0 =>
    /\ EnvelopeCarriesRequestAndChain
    /\ Verifies(LastKey(chains[reqs.transformed.identity.delegation]),
                requestDomainSeparator \o RequestIdOfBody(reqs.transformed.request.body),
                reqs.transformed.body.sender_sig)

\* C7 amended: the envelope carries the request and the chain, and sender_sig is the
\* inner key's signature over requestDomainSeparator || hash(body): it verifies against
\* the inner key's public key, which is the chain's last delegated key (the root key of
\* an empty chain) only when the identity was built with that key pair
C7_SigVerifiesAgainstInnerKey ==
  reqs.transformed.identity.delegation # 0 =>
    /\ EnvelopeCarriesRequestAndChain
    /\ Verifies(KeyBytes(reqs.transformed.identity.inner),
                requestDomainSeparator \o RequestIdOfBody(reqs.transformed.request.body),
                reqs.transformed.body.sender_sig)
    /\ KeyBytes(reqs.transformed.identity.inner)
         = LastKey(chains[reqs.transformed.identity.delegation])
       => Verifies(LastKey(chains[reqs.transformed.identity.delegation]),
                   requestDomainSeparator \o RequestIdOfBody(reqs.transformed.request.body),
                   reqs.transformed.body.sender_sig)

\* a request transformed by the identity that holds the last delegated key of a chain of
\* two delegations, while another call was in flight
C7_Witness ==
  /\ reqs.transformed.identity = FromDelegation(3, 1)
  /\ reqs.transformed.request = HttpAgentRequest("read_state", 1)
  /\ Len(reqs.transformed.body.sender_delegation) = 2
  /\ reqs.transformed.body.sender_pubkey = KeyBytes(1)
  /\ \E r \in CallIds : reqs.pending[r].pc = "sign"

----------------------------------------------------------------------------
(* Claims about the previous back-reference *)

\* C11: the chain a create call returns carries a previous back-reference equal to the
\* chain supplied as options.previous, and a chain created without previous, by fromJSON
\* or by fromDelegations carries none
C11_PreviousIsSuppliedChain ==
  ret.error = "" /\ ret.chain # 0 =>
    chains[ret.chain].previous = (IF ret.op = "create" THEN ret.previous ELSE 0)

====
